---- MODULE Spec2Model ----
(***************************************************************************)
(* Model of backend/src/backend.py of hsc_study_app: the question/attempt  *)
(* store, the HTTP handlers over it, and the report pipeline               *)
(* (format_attempts_for_ai, generate_ai_response, generate_report).        *)
(*                                                                         *)
(* JSON / Python values are tagged records of one shape [t, s, n]:         *)
(*   t = "absent"  the key is not in the dict                              *)
(*   t = "none"    JSON null / Python None                                 *)
(*   t = "str"     a string, its text in s                                 *)
(*   t = "int"     an integer, its value in n                              *)
(* A nested question object is [t, topic] with t in absent/none/dict.      *)
(***************************************************************************)
EXTENDS Integers, Sequences, FiniteSets, TLC

VARIABLES questions, attempts, bedrock, request, response, local, converse_log

vars == <<questions, attempts, bedrock, request, response, local, converse_log>>

(***************************************************************************)
(* Bounds                                                                  *)
(***************************************************************************)
\* longest attempt list posted to /generate-report
MaxLen == 2
\* most rows the attempts table is allowed to grow to
MaxAttempts == 2

(***************************************************************************)
(* Python values                                                           *)
(***************************************************************************)
Absent == [t |-> "absent", s |-> "", n |-> 0]

PyNone == [t |-> "none", s |-> "", n |-> 0]

PyStr(x) == [t |-> "str", s |-> x, n |-> 0]

PyInt(i) == [t |-> "int", s |-> "", n |-> i]

\* bool(v) for the values above; a missing key reads as None through .get(key)
Truthy(v) ==
    CASE v.t = "str" -> v.s # ""
      [] v.t = "int" -> v.n # 0
      [] OTHER -> FALSE

\* v == 'literal'
EqStr(v, lit) == v.t = "str" /\ v.s = lit

\* dict.get(key, default): the default only replaces a missing key
Get(v, default) == IF v.t = "absent" THEN default ELSE v

\* the text an f-string substitutes for {v}
PyFormat(v) ==
    CASE v.t = "str" -> v.s
      [] v.t = "int" -> ToString(v.n)
      [] OTHER -> "None"

(***************************************************************************)
(* Attempt Formatter: format_attempts_for_ai                                *)
(***************************************************************************)
NoMistakes == "No mistakes found in the provided attempts. All questions were answered correctly!"

\* variant: the test forgets to exclude 'none'
IsMistake_keeps_none(attempt) == Truthy(Get(attempt.error_type, PyNone))

\* the condition of the if of the loop body
IsMistake(attempt) ==
    /\ Truthy(Get(attempt.error_type, PyNone))
    /\ ~EqStr(attempt.error_type, "none")

\* attempt.get('question', {}).get('topic', 'Unknown') raises AttributeError
\* when the value of 'question' is None
TopicRaises(attempt) == attempt.question.t = "none"

TopicOf(attempt) ==
    IF attempt.question.t = "absent"
    THEN PyStr("Unknown")
    ELSE Get(attempt.question.topic, PyStr("Unknown"))

FormatBlock(attempt) ==
    "\nTopic - " \o PyFormat(TopicOf(attempt))
    \o "\nMistake Type - " \o PyFormat(Get(attempt.error_type, PyStr("Unknown")))
    \o "\nExplanation - " \o PyFormat(Get(attempt.explanation, PyStr("No explanation provided")))
    \o "\nQuestion ID - " \o PyFormat(Get(attempt.question_id, PyStr("Unknown")))
    \o "\n"

\* the for loop: the list formatted_attempts, or the exception that ends it
RECURSIVE FormatLoop(_, _)
FormatLoop(list, acc) ==
    IF list = <<>> THEN [raised |-> FALSE, blocks |-> acc]
    ELSE IF ~IsMistake(Head(list)) THEN FormatLoop(Tail(list), acc)
    ELSE IF TopicRaises(Head(list)) THEN [raised |-> TRUE, blocks |-> acc]
    ELSE FormatLoop(Tail(list), Append(acc, FormatBlock(Head(list))))

\* "\n".join(blocks)
RECURSIVE Join(_)
Join(blocks) ==
    IF blocks = <<>> THEN ""
    ELSE IF Len(blocks) = 1 THEN blocks[1]
    ELSE blocks[1] \o "\n" \o Join(Tail(blocks))

format_attempts_for_ai(list) ==
    LET loop == FormatLoop(list, <<>>)
    IN  IF loop.raised THEN [raised |-> TRUE, blocks |-> loop.blocks, text |-> ""]
        ELSE IF loop.blocks = <<>>
             THEN [raised |-> FALSE, blocks |-> <<>>, text |-> NoMistakes]
             ELSE [raised |-> FALSE, blocks |-> loop.blocks, text |-> Join(loop.blocks)]

(***************************************************************************)
(* Fallback report of generate_report                                      *)
(***************************************************************************)
\* sum(1 for attempt in attempts if attempt.get('error_type') == kind)
RECURSIVE CountErrorType(_, _)
CountErrorType(list, kind) ==
    IF list = <<>> THEN 0
    ELSE (IF EqStr(Get(Head(list).error_type, PyNone), kind) THEN 1 ELSE 0)
         + CountErrorType(Tail(list), kind)

\* stands for the character U+2022 of the template
Bullet == "*"

FallbackHead == "**Overall Summary:**\nBased on your recent practice sessions, you completed "

FallbackTail ==
    "\n\n**Key Areas for Improvement:**"
    \o "\n- Focus on double-checking your work to avoid silly mistakes"
    \o "\n- Review fundamental concepts where you had difficulties"
    \o "\n- Practice more problems in topics where you made errors"
    \o "\n\n**General Advice:**"
    \o "\n" \o Bullet \o " Take your time when working through problems"
    \o "\n" \o Bullet \o " Show all working steps to catch errors early"
    \o "\n" \o Bullet \o " Review your mistakes to understand what went wrong"
    \o "\n" \o Bullet \o " Practice regularly to build confidence"
    \o "\n\nRemember: Every mistake is a learning opportunity. Keep practicing and you'll continue to improve!"
    \o "\n\n*Note: This is a basic report. For detailed AI analysis, please check your AWS Bedrock configuration.*"

FallbackTemplate(total, silly_mistakes, concept_errors) ==
    FallbackHead \o ToString(total) \o " questions. You made "
    \o ToString(silly_mistakes) \o " silly mistakes and "
    \o ToString(concept_errors) \o " concept errors." \o FallbackTail

\* variant: the total counts only the silly and concept attempts
FallbackReport_counts_mistakes_only(list) ==
    FallbackTemplate(CountErrorType(list, "silly") + CountErrorType(list, "concept"),
                     CountErrorType(list, "silly"), CountErrorType(list, "concept"))

FallbackReport(list) ==
    FallbackTemplate(Len(list), CountErrorType(list, "silly"), CountErrorType(list, "concept"))

(***************************************************************************)
(* Generation Client: generate_ai_response                                 *)
(***************************************************************************)
\* opening of the fixed instructional template; the rest is constant text
system_prompt == "\nYou are an experienced mathematics tutor. Your role is to help students learn from their mistakes by analyzing their incorrect responses and providing targeted feedback.\nPlease have a maximum of 250 words\n"

\* what bedrock.converse does for one call: it raises, replies without the
\* expected output/message/content/text path, or replies with a text
ConverseOutcomes ==
    { [kind |-> "exception", text |-> ""],
      [kind |-> "malformed", text |-> ""],
      [kind |-> "text", text |-> ""],
      [kind |-> "text", text |-> "X"] }

\* variant: the reply's text is never extracted
generate_ai_response_drops_text(configured, prompt, user_message, outcome) ==
    IF ~configured
    THEN [raised |-> FALSE, value |-> PyNone, calls |-> <<>>]
    ELSE [raised |-> FALSE, value |-> PyNone,
          calls |-> <<[modelId |-> "amazon.nova-pro-v1:0",
                       text |-> prompt \o "\n\nUser: " \o user_message,
                       outcome |-> outcome]>>]

\* variant: no try/except around the call, its exception leaves the function
generate_ai_response_propagates(configured, prompt, user_message, outcome) ==
    IF ~configured
    THEN [raised |-> FALSE, value |-> PyNone, calls |-> <<>>]
    ELSE [raised |-> outcome.kind # "text",
          value |-> IF outcome.kind = "text" THEN PyStr(outcome.text) ELSE PyNone,
          calls |-> <<[modelId |-> "amazon.nova-pro-v1:0",
                       text |-> prompt \o "\n\nUser: " \o user_message,
                       outcome |-> outcome]>>]

\* the calls made on the external service, and the value handed back:
\* value is the Optional[str], raised tells an exception left the function
generate_ai_response(configured, prompt, user_message, outcome) ==
    IF ~configured
    THEN [raised |-> FALSE, value |-> PyNone, calls |-> <<>>]
    ELSE LET message == prompt \o "\n\nUser: " \o user_message
             call == [modelId |-> "amazon.nova-pro-v1:0", text |-> message, outcome |-> outcome]
         IN  IF outcome.kind = "text"
             THEN [raised |-> FALSE, value |-> PyStr(outcome.text), calls |-> <<call>>]
             ELSE [raised |-> FALSE, value |-> PyNone, calls |-> <<call>>]

(***************************************************************************)
(* Report Orchestrator: generate_report                                    *)
(***************************************************************************)
\* the handler's locals before any is assigned
NoLocal == [formatted_blocks |-> <<>>, formatted_attempts |-> Absent, ai_response |-> PyNone]

NoRequest == [endpoint |-> "none", attempts |-> <<>>, question_id |-> 0,
              error_type |-> PyNone, explanation |-> PyNone, topic |-> ""]

NoResponse == [status |-> 0, report |-> "", id |-> 0, list |-> <<>>]

\* an exception that leaves a handler is answered with status 500
InternalServerError == [NoResponse EXCEPT !.status = 500]

generate_report(list, outcome) ==
    LET formatted == format_attempts_for_ai(list)
        ai == IF bedrock
              THEN generate_ai_response(bedrock, system_prompt, formatted.text, outcome)
              ELSE [raised |-> FALSE, value |-> PyNone, calls |-> <<>>]
        req == [NoRequest EXCEPT !.endpoint = "generate_report", !.attempts = list]
    IN  /\ request' = req
        /\ UNCHANGED <<questions, attempts, bedrock>>
        /\ IF formatted.raised
           THEN /\ response' = InternalServerError
                /\ local' = [NoLocal EXCEPT !.formatted_blocks = formatted.blocks]
                /\ converse_log' = <<>>
           ELSE /\ converse_log' = ai.calls
                /\ local' = [formatted_blocks |-> formatted.blocks,
                             formatted_attempts |-> PyStr(formatted.text),
                             ai_response |-> ai.value]
                /\ IF ai.raised
                   THEN response' = InternalServerError
                   ELSE response' = [NoResponse EXCEPT
                                        !.status = 200,
                                        !.report = IF Truthy(ai.value) THEN ai.value.s
                                                   ELSE FallbackReport(list)]

(***************************************************************************)
(* Persistence store and its handlers                                      *)
(***************************************************************************)
\* values of the ErrorType enum
ErrorType == {"silly", "concept", "none"}

\* rows added by the database initialisation, question_id in insertion order
sample_questions ==
    << [question_id |-> 1, topic |-> "Trigonometry", question_img |-> "sample_trig_question.png", answer_img |-> "sample_trig_answer.png"],
       [question_id |-> 2, topic |-> "Algebra", question_img |-> "sample_algebra_question.png", answer_img |-> "sample_algebra_answer.png"],
       [question_id |-> 3, topic |-> "Geometry", question_img |-> "sample_geometry_question.png", answer_img |-> "sample_geometry_answer.png"],
       [question_id |-> 4, topic |-> "Linear graphs", question_img |-> "sample_linear_question.png", answer_img |-> "sample_linear_answer.png"],
       [question_id |-> 5, topic |-> "Fractions", question_img |-> "sample_fractions_question.png", answer_img |-> "sample_fractions_answer.png"] >>

\* session.query(Question).filter(Question.question_id == question_id).first()
QuestionExists(question_id) ==
    \E i \in DOMAIN questions : questions[i].question_id = question_id

QuestionRow(question_id) ==
    questions[CHOOSE i \in DOMAIN questions : questions[i].question_id = question_id]

\* variant: the question is not looked up before the insert
create_attempt_without_question_check(question_id, error_type, explanation) ==
    /\ request' = [NoRequest EXCEPT !.endpoint = "create_attempt", !.question_id = question_id,
                                    !.error_type = error_type, !.explanation = explanation]
    /\ UNCHANGED <<questions, bedrock, local, converse_log>>
    /\ IF Truthy(error_type) /\ error_type.s \notin ErrorType
       THEN /\ response' = [NoResponse EXCEPT !.status = 400]
            /\ UNCHANGED attempts
       ELSE /\ attempts' = Append(attempts,
                                  [id |-> Len(attempts) + 1, question_id |-> question_id,
                                   error_type |-> IF Truthy(error_type) THEN error_type ELSE PyNone,
                                   explanation |-> explanation])
            /\ response' = [NoResponse EXCEPT !.status = 200, !.id = Len(attempts) + 1]

\* variant: error_type is stored as sent, without the enum conversion
create_attempt_without_enum_check(question_id, error_type, explanation) ==
    /\ request' = [NoRequest EXCEPT !.endpoint = "create_attempt", !.question_id = question_id,
                                    !.error_type = error_type, !.explanation = explanation]
    /\ UNCHANGED <<questions, bedrock, local, converse_log>>
    /\ IF ~QuestionExists(question_id)
       THEN /\ response' = [NoResponse EXCEPT !.status = 404]
            /\ UNCHANGED attempts
       ELSE /\ attempts' = Append(attempts,
                                  [id |-> Len(attempts) + 1, question_id |-> question_id,
                                   error_type |-> IF Truthy(error_type) THEN error_type ELSE PyNone,
                                   explanation |-> explanation])
            /\ response' = [NoResponse EXCEPT !.status = 200, !.id = Len(attempts) + 1]

\* The timestamp column takes the database default and no handler branches
\* on it, so a row is modelled by its other four columns.
create_attempt(question_id, error_type, explanation) ==
    /\ request' = [NoRequest EXCEPT !.endpoint = "create_attempt", !.question_id = question_id,
                                    !.error_type = error_type, !.explanation = explanation]
    /\ UNCHANGED <<questions, bedrock, local, converse_log>>
    /\ IF ~QuestionExists(question_id)
       THEN /\ response' = [NoResponse EXCEPT !.status = 404]
            /\ UNCHANGED attempts
       ELSE IF Truthy(error_type) /\ error_type.s \notin ErrorType
       THEN /\ response' = [NoResponse EXCEPT !.status = 400]
            /\ UNCHANGED attempts
       ELSE LET row == [id |-> Len(attempts) + 1,
                        question_id |-> question_id,
                        error_type |-> IF Truthy(error_type) THEN error_type ELSE PyNone,
                        explanation |-> explanation]
            IN  /\ attempts' = Append(attempts, row)
                /\ response' = [NoResponse EXCEPT !.status = 200, !.id = row.id]

RECURSIVE SelectTopic(_, _)
SelectTopic(rows, topic) ==
    IF rows = <<>> THEN <<>>
    ELSE IF Head(rows).topic = topic
         THEN <<Head(rows)>> \o SelectTopic(Tail(rows), topic)
         ELSE SelectTopic(Tail(rows), topic)

get_questions_by_topic(topic) ==
    LET found == SelectTopic(questions, topic)
    IN  /\ request' = [NoRequest EXCEPT !.endpoint = "get_questions_by_topic", !.topic = topic]
        /\ response' = IF found = <<>>
                       THEN [NoResponse EXCEPT !.status = 404]
                       ELSE [NoResponse EXCEPT !.status = 200, !.list = found]
        /\ UNCHANGED <<questions, attempts, bedrock, local, converse_log>>

\* SELECT DISTINCT topic: each topic once
RECURSIVE DistinctTopics(_, _)
DistinctTopics(rows, seen) ==
    IF rows = <<>> THEN <<>>
    ELSE IF Head(rows).topic \in seen
         THEN DistinctTopics(Tail(rows), seen)
         ELSE <<Head(rows).topic>> \o DistinctTopics(Tail(rows), seen \cup {Head(rows).topic})

get_topics ==
    /\ request' = [NoRequest EXCEPT !.endpoint = "get_topics"]
    /\ response' = [NoResponse EXCEPT !.status = 200, !.list = DistinctTopics(questions, {})]
    /\ UNCHANGED <<questions, attempts, bedrock, local, converse_log>>

\* the JSON object get_all_attempts builds for one joined row
AttemptJson(row) ==
    [id |-> PyInt(row.id),
     question_id |-> PyInt(row.question_id),
     error_type |-> row.error_type,
     explanation |-> row.explanation,
     question |-> [t |-> "dict",
                   topic |-> PyStr(QuestionRow(row.question_id).topic),
                   question_id |-> PyInt(QuestionRow(row.question_id).question_id)]]

\* session.query(Attempt).join(Question).all(): rows whose question exists
RECURSIVE JoinedAttempts(_)
JoinedAttempts(rows) ==
    IF rows = <<>> THEN <<>>
    ELSE IF QuestionExists(Head(rows).question_id)
         THEN <<AttemptJson(Head(rows))>> \o JoinedAttempts(Tail(rows))
         ELSE JoinedAttempts(Tail(rows))

get_all_attempts ==
    /\ request' = [NoRequest EXCEPT !.endpoint = "get_all_attempts"]
    /\ response' = [NoResponse EXCEPT !.status = 200, !.list = JoinedAttempts(attempts)]
    /\ UNCHANGED <<questions, attempts, bedrock, local, converse_log>>

(***************************************************************************)
(* Requests                                                                *)
(***************************************************************************)
ErrorTypeInputs == {Absent, PyNone, PyStr(""), PyStr("none"), PyStr("silly"), PyStr("concept")}

QuestionInputs ==
    { [t |-> "absent", topic |-> Absent],
      [t |-> "none", topic |-> Absent],
      [t |-> "dict", topic |-> Absent],
      [t |-> "dict", topic |-> PyStr("Algebra")] }

ExplanationInputs == {Absent, PyNone, PyStr("sign error")}

\* every error_type with every question, and with every explanation
AttemptDicts ==
    [error_type : ErrorTypeInputs, question : QuestionInputs,
     explanation : {PyStr("sign error")}, question_id : {PyInt(15)}]
    \cup
    [error_type : ErrorTypeInputs, question : {[t |-> "dict", topic |-> PyStr("Algebra")]},
     explanation : ExplanationInputs, question_id : {PyInt(15)}]

AttemptLists == UNION { [1..n -> AttemptDicts] : n \in 0..MaxLen }

\* question ids a client posts: a sample question and one that is not stored
QuestionIdInputs == {2, 6}

AttemptErrorTypeInputs == {PyNone, PyStr(""), PyStr("none"), PyStr("silly"), PyStr("concept"), PyStr("method")}

AttemptExplanationInputs == {PyNone, PyStr("sign error")}

TopicInputs == {"Algebra", "Fractions", "Calculus"}

\* the handler answers a posted list that is waiting for its report
HandleGenerateReport ==
    /\ request.endpoint = "generate_report"
    /\ response = NoResponse
    /\ \E outcome \in ConverseOutcomes :
          generate_report(request.attempts, outcome)

\* the client posts back what GET /attempts returned
PostStoredAttempts ==
    \E outcome \in ConverseOutcomes :
        generate_report(JoinedAttempts(attempts), outcome)

PostAttempt ==
    /\ Len(attempts) < MaxAttempts
    /\ \E question_id \in QuestionIdInputs, error_type \in AttemptErrorTypeInputs,
          explanation \in AttemptExplanationInputs :
            create_attempt(question_id, error_type, explanation)

GetQuestionsByTopic == \E topic \in TopicInputs : get_questions_by_topic(topic)

GetTopics == get_topics

GetAttempts == get_all_attempts

Init ==
    /\ questions = sample_questions
    /\ attempts = <<>>
    /\ bedrock \in BOOLEAN
    /\ request = NoRequest
    /\ response = NoResponse
    /\ local = NoLocal
    /\ converse_log = <<>>

Next ==
    \/ PostAttempt
    \/ GetQuestionsByTopic
    \/ GetTopics
    \/ GetAttempts
    \/ PostStoredAttempts

Spec == Init /\ [][Next]_vars

\* a client has posted any list of attempt-like objects to /generate-report
InitReport ==
    /\ questions = sample_questions
    /\ attempts = <<>>
    /\ bedrock \in BOOLEAN
    /\ \E list \in AttemptLists :
          request = [NoRequest EXCEPT !.endpoint = "generate_report", !.attempts = list]
    /\ response = NoResponse
    /\ local = NoLocal
    /\ converse_log = <<>>

NextReport == HandleGenerateReport

SpecReport == InitReport /\ [][NextReport]_vars

(***************************************************************************)
(* Properties                                                              *)
(***************************************************************************)
\* the posted report request has been answered
Answered == request.endpoint = "generate_report" /\ response.status # 0

\* the client was called and its reply carried a non-empty text
ClientReturnedText ==
    /\ bedrock
    /\ converse_log # <<>>
    /\ converse_log[1].outcome.kind = "text"
    /\ converse_log[1].outcome.text # ""

\* no client is configured, or the call failed or came back empty
GenerationUnavailable ==
    \/ ~bedrock
    \/ /\ converse_log # <<>>
       /\ \/ converse_log[1].outcome.kind \in {"exception", "malformed"}
          \/ converse_log[1].outcome.text = ""

\* error_type is present (a key with a non-null value) and is not "none"
PresentNotNone(a) ==
    /\ a.error_type.t \notin {"absent", "none"}
    /\ ~(a.error_type.t = "str" /\ a.error_type.s = "none")

\* error_type is present, not empty (not zero) and not "none"
NonEmptyNotNone(a) ==
    \/ a.error_type.t = "str" /\ a.error_type.s \notin {"", "none"}
    \/ a.error_type.t = "int" /\ a.error_type.n # 0

HasErrorType(a, kind) == a.error_type.t = "str" /\ a.error_type.s = kind

\* C1: generateReport never raises to its caller: for every list of attempt
\* records and every outcome of the generation client, the call completes
\* and returns a report string.
C1_NeverRaises == Answered => response.status = 200

\* C2: whenever the generation client is unconfigured, or its call fails or
\* returns an empty result, the report returned by generateReport is
\* byte-identical to the fallback report of the same attempt list.
C2_FallbackWhenUnavailable ==
    (Answered /\ GenerationUnavailable) =>
        /\ response.status = 200
        /\ response.report = FallbackReport(request.attempts)

\* C3: if the generation client is configured and returns a non-empty string
\* X, generateReport returns exactly X, whatever the attempt list holds.
C3_GenerationPrecedence ==
    (Answered /\ ClientReturnedText) =>
        /\ response.status = 200
        /\ response.report = converse_log[1].outcome.text

C3_Witness ==
    /\ Answered
    /\ ClientReturnedText
    /\ response.report = "X"
    /\ \E i \in DOMAIN request.attempts : HasErrorType(request.attempts[i], "silly")

\* C4: the formatter emits exactly one block per attempt whose error_type is
\* present and not "none", and no block for any other attempt.
C4_OneBlockPerPresentErrorType ==
    Answered =>
        Len(local.formatted_blocks)
            = Cardinality({i \in DOMAIN request.attempts : PresentNotNone(request.attempts[i])})

\* C5 as stated: a list in which every error_type is absent or "none"
\* formats to the fixed sentence, and the sentence is returned only when no
\* record has an error_type that is present and not "none".
C5_SentinelIffNoPresentErrorType ==
    Answered =>
        ((\A i \in DOMAIN request.attempts : ~PresentNotNone(request.attempts[i]))
            <=> local.formatted_attempts = PyStr(NoMistakes))

\* C5 amended: a list in which every error_type is absent, null, empty or
\* "none" formats to the fixed sentence, and the sentence is returned only
\* when no record has a non-empty error_type other than "none".
C5_SentinelIffNoMistake ==
    Answered =>
        ((\A i \in DOMAIN request.attempts : ~NonEmptyNotNone(request.attempts[i]))
            <=> local.formatted_attempts = PyStr(NoMistakes))

C5_Witness ==
    /\ Answered
    /\ local.formatted_attempts = PyStr(NoMistakes)
    /\ \E i \in DOMAIN request.attempts : HasErrorType(request.attempts[i], "none")
    /\ \E i \in DOMAIN request.attempts : request.attempts[i].error_type.t = "absent"

\* the Topic line the claim C6 describes
ClaimedTopic(a) ==
    IF a.question.t \in {"absent", "none"} \/ a.question.topic.t = "absent"
    THEN "Unknown"
    ELSE a.question.topic.s

\* the Explanation line the claim C6 describes
ClaimedExplanation(a) ==
    IF a.explanation.t \in {"absent", "none"}
    THEN "No explanation provided"
    ELSE a.explanation.s

ClaimedBlock(a) ==
    "\nTopic - " \o ClaimedTopic(a)
    \o "\nMistake Type - " \o a.error_type.s
    \o "\nExplanation - " \o ClaimedExplanation(a)
    \o "\nQuestion ID - " \o ToString(a.question_id.n)
    \o "\n"

\* C6: for each included record the formatter emits Topic, Mistake Type,
\* Explanation and Question ID in that order, with "Unknown" for a missing
\* topic (question absent or null, or topic absent) and "No explanation
\* provided" for a missing explanation (key absent or value null).
C6_DefaultsForMissingFields ==
    Answered =>
        LET included == SelectSeq(request.attempts, IsMistake)
        IN  /\ Len(local.formatted_blocks) = Len(included)
            /\ \A k \in DOMAIN included : local.formatted_blocks[k] = ClaimedBlock(included[k])

\* C7: the fallback report embeds total = number of attempts of any
\* error_type, sillyCount = number with error_type "silly", conceptCount =
\* number with error_type "concept", and sillyCount + conceptCount <= total.
C7_FallbackCounts ==
    (Answered /\ response.status = 200 /\ ~ClientReturnedText) =>
        LET total == Len(request.attempts)
            sillyCount == Cardinality({i \in DOMAIN request.attempts :
                                          HasErrorType(request.attempts[i], "silly")})
            conceptCount == Cardinality({i \in DOMAIN request.attempts :
                                            HasErrorType(request.attempts[i], "concept")})
        IN  /\ response.report = FallbackTemplate(total, sillyCount, conceptCount)
            /\ sillyCount + conceptCount <= total

C7_Witness ==
    /\ Answered
    /\ response.status = 200
    /\ ~ClientReturnedText
    /\ \E i \in DOMAIN request.attempts : HasErrorType(request.attempts[i], "silly")
    /\ \E i \in DOMAIN request.attempts : ~PresentNotNone(request.attempts[i])

\* C9: one invocation calls the generation service at most once, and not at
\* all when no client is configured; an exception or malformed reply of that
\* call becomes None inside the client and the fallback report is returned.
C9_SingleCallFailsSoftly ==
    Answered =>
        /\ Len(converse_log) <= 1
        /\ ~bedrock => converse_log = <<>>
        /\ (converse_log # <<>> /\ converse_log[1].outcome.kind \in {"exception", "malformed"}) =>
              /\ local.ai_response = PyNone
              /\ response.status = 200
              /\ response.report = FallbackReport(request.attempts)

C9_Witness ==
    /\ Answered
    /\ bedrock
    /\ Len(converse_log) = 1
    /\ converse_log[1].outcome.kind = "exception"
    /\ response.status = 200

\* a step that answers a POST /attempt
CreateAttemptStep == request'.endpoint = "create_attempt"

\* the step appends exactly one row, for the posted question
InsertsOneRow ==
    /\ Len(attempts') = Len(attempts) + 1
    /\ SubSeq(attempts', 1, Len(attempts)) = attempts
    /\ attempts'[Len(attempts')].question_id = request'.question_id

\* C8 as stated: 404 when the question does not exist, 400 whenever the
\* supplied error_type is not in {silly, concept, none}; no row is inserted
\* in either case, and only a request with an existing question and an
\* allowed or absent error_type inserts exactly one attempt.
C8_NotFoundAndInvalidInput ==
    [][CreateAttemptStep =>
        /\ ~QuestionExists(request'.question_id) => response'.status = 404
        /\ (request'.error_type.t = "str" /\ request'.error_type.s \notin ErrorType)
              => response'.status = 400
        /\ response'.status \in {400, 404} => attempts' = attempts
        /\ attempts' # attempts =>
              /\ InsertsOneRow
              /\ QuestionExists(request'.question_id)
              /\ request'.error_type.t = "str" => request'.error_type.s \in ErrorType
      ]_vars

\* C8 amended: 404 when the question does not exist, whatever the
\* error_type; 400 when the question exists and the supplied error_type is a
\* non-empty string not in {silly, concept, none}; no row is inserted in
\* either case; a request with an existing question and an allowed, empty or
\* absent error_type inserts exactly one attempt, an empty error_type being
\* stored as null.
C8_NotFoundBeforeInvalidInput ==
    [][CreateAttemptStep =>
        LET exists == QuestionExists(request'.question_id)
            invalid == request'.error_type.t = "str"
                       /\ request'.error_type.s \notin (ErrorType \cup {""})
        IN  /\ ~exists => (response'.status = 404 /\ attempts' = attempts)
            /\ (exists /\ invalid) => (response'.status = 400 /\ attempts' = attempts)
            /\ (exists /\ ~invalid) =>
                  /\ response'.status = 200
                  /\ InsertsOneRow
                  /\ attempts'[Len(attempts')].error_type =
                        (IF request'.error_type.t = "str" /\ request'.error_type.s # ""
                         THEN request'.error_type ELSE PyNone)
      ]_vars

C8_Witness ==
    /\ request.endpoint = "create_attempt"
    /\ QuestionExists(request.question_id)
    /\ request.error_type = PyStr("method")
    /\ response.status = 400
    /\ attempts # <<>>

\* every stored attempt references a stored question and carries an
\* ErrorType value or null
StoreInvariant ==
    \A i \in DOMAIN attempts :
        /\ \E j \in DOMAIN questions : questions[j].question_id = attempts[i].question_id
        /\ \/ attempts[i].error_type = PyNone
           \/ attempts[i].error_type.t = "str" /\ attempts[i].error_type.s \in ErrorType

\* the answer of GET /attempts lists every stored attempt
GetAttemptsReturnsAll ==
    request.endpoint = "get_all_attempts" =>
        /\ Len(response.list) = Len(attempts)
        /\ \A i \in DOMAIN attempts : response.list[i].id = PyInt(attempts[i].id)

\* C10: after any sequence of requests every stored attempt references an
\* existing question and has an error_type in {silly, concept, none} or
\* null; GET /attempts returns every stored attempt; the read-only
\* endpoints and /generate-report never change the store.
C10_StoreInvariant ==
    /\ [](StoreInvariant /\ GetAttemptsReturnsAll)
    /\ [][request'.endpoint # "create_attempt"
            => (attempts' = attempts /\ questions' = questions)]_vars

C10_Witness ==
    /\ request.endpoint = "get_all_attempts"
    /\ Len(attempts) >= 2
    /\ Len(response.list) = Len(attempts)
    /\ \E i \in DOMAIN attempts : attempts[i].error_type = PyNone

====
